---- MODULE Spec2Model ----
(***************************************************************************)
(* Model of src/expr.py: the expression node hierarchy (IntConst, BinOp,   *)
(* UnOp, Var, Assign), its eval / __str__ / __repr__ protocol and the      *)
(* global environment ENV.                                                 *)
(*                                                                         *)
(* A caller constructs a tree (the constructors run bottom-up, as Python   *)
(* evaluates the arguments of a call before the call), then invokes eval,  *)
(* __str__ or __repr__ on its root.  eval is a RECURSIVE operator that     *)
(* threads the environment through the walk in the order of the            *)
(* statements of each eval method; an exception is an outcome whose status *)
(* is the exception's class name.                                          *)
(***************************************************************************)
EXTENDS Integers, Sequences, FiniteSets, TLC

VARIABLES ENV, pc, term, expr, result, prevResult, envBefore, trace, lastAssigned

vars == <<ENV, pc, term, expr, result, prevResult, envBefore, trace, lastAssigned>>

(***************************************************************************)
(* Bounds of the model.                                                    *)
(***************************************************************************)
\* integer literals of the trees a caller builds: 0..MaxConst
MaxConst == 1
\* values kept in ENV between calls stay within -MaxVal..MaxVal
MaxVal == 2
\* operands of the arithmetic specification: -MaxArg..MaxArg
MaxArg == 7

Names == {"x", "y"}

BinOpTags == {"Plus", "Minus", "Times", "Div"}
UnOpTags == {"Abs", "Neg"}

(***************************************************************************)
(* Nodes.  A node is a record whose tag is the class name and whose other  *)
(* fields are the attributes __init__ sets.                                *)
(***************************************************************************)
IntConst(value) == [tag |-> "IntConst", value |-> value]

Var(name) == [tag |-> "Var", name |-> name]

BinOp(tag, left, right) == [tag |-> tag, left |-> left, right |-> right]

Plus(left, right) == BinOp("Plus", left, right)

Minus(left, right) == BinOp("Minus", left, right)

Times(left, right) == BinOp("Times", left, right)

Div(left, right) == BinOp("Div", left, right)

\* operand is the attribute UnOp.__init__ names value; it is renamed because
\* the value of an IntConst is a number while this one is a node
UnOp(tag, operand) == [tag |-> tag, operand |-> operand]

Abs(value) == UnOp("Abs", value)

Neg(value) == UnOp("Neg", value)

\* the record Assign.__init__ leaves behind when its assertion passes
Assign(left, right) == [tag |-> "Assign", left |-> left, right |-> right]

\* no object: the value of an outcome that raised, the expr of an idle caller
None == [tag |-> "None"]

(***************************************************************************)
(* Construction.  A constructor call is a term of the same shape as a node *)
(* in which the left operand of Assign is any term.  Construct runs the    *)
(* constructors bottom-up; the assert of Assign.__init__ raises            *)
(* AssertionError, which no constructor catches.                           *)
(***************************************************************************)
\* the assertion compiled away: every left operand passes
isinstance_Var_unchecked(e) == TRUE

isinstance_Var(e) == e.tag = "Var"

Assign_init(left, right) ==
  IF isinstance_Var(left)
    THEN [status |-> "ok", node |-> Assign(left, right)]
    ELSE [status |-> "AssertionError", node |-> None]

RECURSIVE Construct(_)
Construct(t) ==
  CASE t.tag \in {"IntConst", "Var"} -> [status |-> "ok", node |-> t]
    [] t.tag \in BinOpTags ->
         LET l == Construct(t.left) IN
         IF l.status # "ok" THEN l ELSE
         LET r == Construct(t.right) IN
         IF r.status # "ok" THEN r ELSE
         [status |-> "ok", node |-> BinOp(t.tag, l.node, r.node)]
    [] t.tag \in UnOpTags ->
         LET v == Construct(t.operand) IN
         IF v.status # "ok" THEN v ELSE
         [status |-> "ok", node |-> UnOp(t.tag, v.node)]
    [] t.tag = "Assign" ->
         LET l == Construct(t.left) IN
         IF l.status # "ok" THEN l ELSE
         LET r == Construct(t.right) IN
         IF r.status # "ok" THEN r ELSE
         Assign_init(l.node, r.node)

(***************************************************************************)
(* The terms a caller writes: at most two operator nodes over the literals *)
(* 0..MaxConst and the names of Names, and the binary operators over two   *)
(* assignments of a leaf.                                                  *)
(***************************************************************************)
Literals == {IntConst(v) : v \in 0..MaxConst}

Terms0 == Literals \cup {Var(n) : n \in Names}

Build(L, R) ==
  {BinOp(tag, l, r) : tag \in BinOpTags, l \in L, r \in R}
    \cup {Assign(l, r) : l \in L, r \in R}

BuildUn(V) == {UnOp(tag, v) : tag \in UnOpTags, v \in V}

Terms1 == Build(Terms0, Terms0) \cup BuildUn(Terms0)

Terms2 == Build(Terms0, Terms1) \cup Build(Terms1, Terms0) \cup BuildUn(Terms1)

Assignments1 == {Assign(Var(n), r) : n \in Names, r \in Terms0}

Terms3 == {BinOp(tag, l, r) : tag \in BinOpTags, l \in Assignments1, r \in Assignments1}

Terms == Terms0 \cup Terms1 \cup Terms2 \cup Terms3

(***************************************************************************)
(* eval.  An outcome is the result of a call: status "ok" and the IntConst *)
(* returned, or the class name of the exception raised; env is the         *)
(* environment the call leaves, trace the calls finished so far.           *)
(***************************************************************************)
Return(e, value, env, tr) ==
  [status |-> "ok", value |-> value, env |-> env,
   trace |-> Append(tr, [ev |-> "return", node |-> e, status |-> "ok", value |-> value])]

Raise(e, err, env, tr) ==
  [status |-> err, value |-> None, env |-> env,
   trace |-> Append(tr, [ev |-> "raise", node |-> e, status |-> err, value |-> None])]

Plus_apply(left, right) == [status |-> "ok", int |-> left + right]

\* the operands of the difference exchanged
Minus_apply_swapped(left, right) == [status |-> "ok", int |-> right - left]

Minus_apply(left, right) == [status |-> "ok", int |-> left - right]

Times_apply(left, right) == [status |-> "ok", int |-> left * right]

abs(value) == IF value < 0 THEN -value ELSE value

\* the quotient truncated toward zero, as C's / does
FloorDiv_truncating(left, right) ==
  LET q == abs(left) \div abs(right)
  IN IF (left < 0) = (right < 0) THEN q ELSE -q

\* Python's left // right: the quotient rounded toward negative infinity;
\* a zero divisor raises ZeroDivisionError
FloorDiv(left, right) ==
  LET q == abs(left) \div abs(right)
      exact == q * abs(right) = abs(left)
      sameSign == (left < 0) = (right < 0)
  IN IF sameSign THEN q ELSE IF exact THEN -q ELSE -q - 1

\* a zero divisor gives 0 instead of raising
Div_apply_zero_default(left, right) ==
  IF right = 0
    THEN [status |-> "ok", int |-> 0]
    ELSE [status |-> "ok", int |-> FloorDiv(left, right)]

Div_apply(left, right) ==
  IF right = 0
    THEN [status |-> "ZeroDivisionError", int |-> 0]
    ELSE [status |-> "ok", int |-> FloorDiv(left, right)]

Abs_apply(value) == [status |-> "ok", int |-> abs(value)]

Neg_apply(value) == [status |-> "ok", int |-> -value]

BinOp_apply(tag, left, right) ==
  CASE tag = "Plus" -> Plus_apply(left, right)
    [] tag = "Minus" -> Minus_apply(left, right)
    [] tag = "Times" -> Times_apply(left, right)
    [] tag = "Div" -> Div_apply(left, right)

UnOp_apply(tag, value) ==
  CASE tag = "Abs" -> Abs_apply(value)
    [] tag = "Neg" -> Neg_apply(value)

IntConst_eval(e, env, tr) == Return(e, e, env, tr)

\* IntConst.__eq__
IntConst_eq(self, other) == other.tag = "IntConst" /\ self.value = other.value

\* an unbound name reads as 0, as dict.get(name, IntConst(0)) would
Var_eval_default(e, env, tr) ==
  IF e.name \in DOMAIN env
    THEN Return(e, env[e.name], env, tr)
    ELSE Return(e, IntConst(0), env, tr)

\* an unbound name is bound to 0 on first read, as ENV.setdefault would
Var_eval_setdefault(e, env, tr) ==
  IF e.name \in DOMAIN env
    THEN Return(e, env[e.name], env, tr)
    ELSE Return(e, IntConst(0), [n \in DOMAIN env \cup {e.name} |->
                                  IF n = e.name THEN IntConst(0) ELSE env[n]], tr)

Var_eval(e, env, tr) ==
  IF e.name \in DOMAIN env
    THEN Return(e, env[e.name], env, tr)
    ELSE Raise(e, "UndefinedVariable", env, tr)

\* an existing binding is kept, as ENV.setdefault(name, value) would
Var_assign_setdefault(e, value, env) ==
  [n \in DOMAIN env \cup {e.name} |-> IF n \in DOMAIN env THEN env[n] ELSE value]

Var_assign(e, value, env) ==
  [n \in DOMAIN env \cup {e.name} |-> IF n = e.name THEN value ELSE env[n]]

RECURSIVE Eval(_, _, _)

\* the right operand evaluated before the left
BinOp_eval_right_first(e, env, tr) ==
  LET right_val == Eval(e.right, env, tr) IN
  IF right_val.status # "ok" THEN Raise(e, right_val.status, right_val.env, right_val.trace) ELSE
  LET left_val == Eval(e.left, right_val.env, right_val.trace) IN
  IF left_val.status # "ok" THEN Raise(e, left_val.status, left_val.env, left_val.trace) ELSE
  LET applied == BinOp_apply(e.tag, left_val.value.value, right_val.value.value) IN
  IF applied.status # "ok" THEN Raise(e, applied.status, left_val.env, left_val.trace) ELSE
  Return(e, IntConst(applied.int), left_val.env, left_val.trace)

\* a failure of the left operand is held back until the right one was evaluated
BinOp_eval_continue(e, env, tr) ==
  LET left_val == Eval(e.left, env, tr) IN
  LET right_val == Eval(e.right, left_val.env, left_val.trace) IN
  IF left_val.status # "ok" THEN Raise(e, left_val.status, right_val.env, right_val.trace) ELSE
  IF right_val.status # "ok" THEN Raise(e, right_val.status, right_val.env, right_val.trace) ELSE
  LET applied == BinOp_apply(e.tag, left_val.value.value, right_val.value.value) IN
  IF applied.status # "ok" THEN Raise(e, applied.status, right_val.env, right_val.trace) ELSE
  Return(e, IntConst(applied.int), right_val.env, right_val.trace)

\* a failure restores the environment the node was entered with
BinOp_eval_rollback(e, env, tr) ==
  LET left_val == Eval(e.left, env, tr) IN
  IF left_val.status # "ok" THEN Raise(e, left_val.status, env, left_val.trace) ELSE
  LET right_val == Eval(e.right, left_val.env, left_val.trace) IN
  IF right_val.status # "ok" THEN Raise(e, right_val.status, env, right_val.trace) ELSE
  LET applied == BinOp_apply(e.tag, left_val.value.value, right_val.value.value) IN
  IF applied.status # "ok" THEN Raise(e, applied.status, env, right_val.trace) ELSE
  Return(e, IntConst(applied.int), right_val.env, right_val.trace)

BinOp_eval(e, env, tr) ==
  LET left_val == Eval(e.left, env, tr) IN
  IF left_val.status # "ok" THEN Raise(e, left_val.status, left_val.env, left_val.trace) ELSE
  LET right_val == Eval(e.right, left_val.env, left_val.trace) IN
  IF right_val.status # "ok" THEN Raise(e, right_val.status, right_val.env, right_val.trace) ELSE
  LET applied == BinOp_apply(e.tag, left_val.value.value, right_val.value.value) IN
  IF applied.status # "ok" THEN Raise(e, applied.status, right_val.env, right_val.trace) ELSE
  Return(e, IntConst(applied.int), right_val.env, right_val.trace)

UnOp_eval(e, env, tr) ==
  LET left_val == Eval(e.operand, env, tr) IN
  IF left_val.status # "ok" THEN Raise(e, left_val.status, left_val.env, left_val.trace) ELSE
  LET applied == UnOp_apply(e.tag, left_val.value.value) IN
  IF applied.status # "ok" THEN Raise(e, applied.status, left_val.env, left_val.trace) ELSE
  Return(e, IntConst(applied.int), left_val.env, left_val.trace)

Assign_eval(e, env, tr) ==
  LET r_val == Eval(e.right, env, tr) IN
  IF r_val.status # "ok" THEN Raise(e, r_val.status, r_val.env, r_val.trace) ELSE
  Return(e, r_val.value, Var_assign(e.left, r_val.value, r_val.env), r_val.trace)

Eval(e, env, tr) ==
  CASE e.tag = "IntConst" -> IntConst_eval(e, env, tr)
    [] e.tag = "Var" -> Var_eval(e, env, tr)
    [] e.tag \in BinOpTags -> BinOp_eval(e, env, tr)
    [] e.tag \in UnOpTags -> UnOp_eval(e, env, tr)
    [] e.tag = "Assign" -> Assign_eval(e, env, tr)

(***************************************************************************)
(* __str__ and __repr__.  Neither method reads or writes ENV.              *)
(***************************************************************************)
Digit(d) ==
  CASE d = 0 -> "0" [] d = 1 -> "1" [] d = 2 -> "2" [] d = 3 -> "3" [] d = 4 -> "4"
    [] d = 5 -> "5" [] d = 6 -> "6" [] d = 7 -> "7" [] d = 8 -> "8" [] d = 9 -> "9"

RECURSIVE NatStr(_)
NatStr(n) == IF n < 10 THEN Digit(n) ELSE NatStr(n \div 10) \o Digit(n % 10)

\* int.__str__: decimal digits, a leading "-" for a negative number
int_str(value) == IF value < 0 THEN "-" \o NatStr(-value) ELSE NatStr(value)

symbol(tag) ==
  CASE tag = "Plus" -> "+" [] tag = "Minus" -> "-" [] tag = "Times" -> "*"
    [] tag = "Div" -> "/" [] tag = "Abs" -> "@" [] tag = "Neg" -> "~"

RECURSIVE Str(_)
Str(e) ==
  CASE e.tag = "IntConst" -> int_str(e.value)
    [] e.tag = "Var" -> e.name
    [] e.tag \in BinOpTags ->
         "(" \o Str(e.left) \o " " \o symbol(e.tag) \o " " \o Str(e.right) \o ")"
    [] e.tag \in UnOpTags -> "(" \o symbol(e.tag) \o " " \o Str(e.operand) \o ")"
    [] e.tag = "Assign" -> "(" \o Str(e.left) \o " = " \o Str(e.right) \o ")"

RECURSIVE Repr(_)
Repr(e) ==
  CASE e.tag = "IntConst" -> "IntConst(" \o Str(e) \o ")"
    [] e.tag = "Var" -> "Var(" \o e.name \o ")"
    [] e.tag \in BinOpTags -> e.tag \o "(" \o Repr(e.left) \o ", " \o Repr(e.right) \o ")"
    [] e.tag \in UnOpTags -> e.tag \o "(" \o Repr(e.operand) \o ")"
    [] e.tag = "Assign" -> "Assign(" \o Repr(e.left) \o ", " \o Repr(e.right) \o ")"

(***************************************************************************)
(* The caller.  pc is the caller's position: "idle" (holding no tree),     *)
(* "built" (a tree was constructed), and after_* once a call returned or   *)
(* raised.  term is the constructor term the caller wrote and expr the     *)
(* tree it got.  result is what the last call gave.  History of the last   *)
(* call on a tree: envBefore is ENV at the moment of the call (ENV itself  *)
(* while the caller holds no tree), trace the eval calls it finished, in   *)
(* order, prevResult the result of the call before it on the same tree.    *)
(* lastAssigned records, per name, the value of the most recent assignment *)
(* that completed.                                                         *)
(***************************************************************************)
EmptyEnv == [n \in {} |-> None]

NoResult == [status |-> "none", value |-> None, text |-> ""]

InRange(env) == \A n \in DOMAIN env : env[n].value \in -MaxVal..MaxVal

\* env with name n bound to v and every other binding kept
Bind(env, n, v) == [m \in DOMAIN env \cup {n} |-> IF m = n THEN v ELSE env[m]]

\* the environment env after the assignments that completed in tr, in order
RECURSIVE ApplyWrites(_, _)
ApplyWrites(env, tr) ==
  IF tr = <<>> THEN env
  ELSE LET e == Head(tr) IN
       ApplyWrites(IF e.ev = "return" /\ e.node.tag = "Assign"
                     THEN Bind(env, e.node.left.name, e.value)
                     ELSE env,
                   Tail(tr))

Init ==
  /\ ENV = EmptyEnv
  /\ pc = "idle"
  /\ term = None
  /\ expr = None
  /\ result = NoResult
  /\ prevResult = NoResult
  /\ envBefore = EmptyEnv
  /\ trace = <<>>
  /\ lastAssigned = EmptyEnv

\* the caller, holding no tree, writes a constructor term; the constructors run
DoConstruct(t) ==
  /\ term' = t
  /\ LET c == Construct(t) IN
     /\ expr' = c.node
     /\ result' = [status |-> c.status, value |-> None, text |-> ""]
     /\ pc' = IF c.status = "ok" THEN "built" ELSE "after_init"
  /\ envBefore' = ENV
  /\ trace' = <<>>
  /\ UNCHANGED <<ENV, prevResult, lastAssigned>>

\* expr.eval()
CallEval(next) ==
  LET out == Eval(expr, ENV, <<>>) IN
  /\ InRange(out.env)
  /\ ENV' = out.env
  /\ result' = [status |-> out.status, value |-> out.value, text |-> ""]
  /\ prevResult' = result
  /\ envBefore' = ENV
  /\ trace' = out.trace
  /\ lastAssigned' = ApplyWrites(lastAssigned, out.trace)
  /\ pc' = next
  /\ UNCHANGED <<term, expr>>

DoEval == pc = "built" /\ CallEval("after_eval")

\* expr.eval() a second time, directly after the first
DoEvalAgain == pc = "after_eval" /\ CallEval("after_eval2")

\* str(expr)
DoStr ==
  /\ pc = "built"
  /\ result' = [status |-> "ok", value |-> None, text |-> Str(expr)]
  /\ envBefore' = ENV
  /\ trace' = <<>>
  /\ pc' = "after_str"
  /\ UNCHANGED <<ENV, term, expr, prevResult, lastAssigned>>

\* repr(expr)
DoRepr ==
  /\ pc = "built"
  /\ result' = [status |-> "ok", value |-> None, text |-> Repr(expr)]
  /\ envBefore' = ENV
  /\ trace' = <<>>
  /\ pc' = "after_repr"
  /\ UNCHANGED <<ENV, term, expr, prevResult, lastAssigned>>

\* Var(n).assign(IntConst(v)), called directly by a caller holding no tree
DoAssign(n, v) ==
  /\ ENV' = Var_assign(Var(n), IntConst(v), ENV)
  /\ lastAssigned' = Bind(lastAssigned, n, IntConst(v))
  /\ envBefore' = ENV'
  /\ UNCHANGED <<pc, term, expr, result, prevResult, trace>>

\* the caller drops the tree and the result
Discard ==
  /\ pc \notin {"idle", "built"}
  /\ pc' = "idle"
  /\ term' = None
  /\ expr' = None
  /\ result' = NoResult
  /\ prevResult' = NoResult
  /\ envBefore' = ENV
  /\ trace' = <<>>
  /\ UNCHANGED <<ENV, lastAssigned>>

Next ==
  \/ pc = "idle" /\ \E t \in Terms : DoConstruct(t)
  \/ DoEval
  \/ DoEvalAgain
  \/ DoStr
  \/ DoRepr
  \/ pc = "idle" /\ \E n \in Names, v \in -MaxVal..MaxVal : DoAssign(n, v)
  \/ Discard

Spec == Init /\ [][Next]_vars

(***************************************************************************)
(* The arithmetic specification: the caller builds one operator node over  *)
(* integer literals of either sign, evaluates it and drops it.             *)
(***************************************************************************)
Args == -MaxArg..MaxArg

ArithTerms ==
  {BinOp(tag, IntConst(a), IntConst(b)) : tag \in BinOpTags, a \in Args, b \in Args}
    \cup {UnOp(tag, IntConst(a)) : tag \in UnOpTags, a \in Args}

NextArith ==
  \/ pc = "idle" /\ \E t \in ArithTerms : DoConstruct(t)
  \/ DoEval
  \/ Discard

SpecArith == Init /\ [][NextArith]_vars

EvalDone == pc \in {"after_eval", "after_eval2"}

TypeOK ==
  /\ pc \in {"idle", "built", "after_init", "after_eval", "after_eval2", "after_str", "after_repr"}
  /\ DOMAIN ENV \subseteq Names
  /\ InRange(ENV)

(***************************************************************************)
(* Properties.                                                             *)
(***************************************************************************)
IsConst(e) == e.tag = "IntConst"

ConstOperands(e) ==
  \/ e.tag \in BinOpTags /\ IsConst(e.left) /\ IsConst(e.right)
  \/ e.tag \in UnOpTags /\ IsConst(e.operand)

\* the mathematical absolute value
Magnitude(a) == CHOOSE m \in {a, 0 - a} : m >= 0

ReturnsConst(v) == result.status = "ok" /\ IntConst_eq(result.value, IntConst(v))

\* C1: a Plus, Minus or Times node over two integer literals a and b
\* evaluates to an IntConst equal to IntConst(a+b), IntConst(a-b),
\* IntConst(a*b); Abs and Neg over a literal a evaluate to IntConst(|a|)
\* and IntConst(-a).
C1_OperatorResults ==
  (pc = "after_eval" /\ ConstOperands(expr)) =>
    /\ expr.tag = "Plus" => ReturnsConst(expr.left.value + expr.right.value)
    /\ expr.tag = "Minus" => ReturnsConst(expr.left.value - expr.right.value)
    /\ expr.tag = "Times" => ReturnsConst(expr.left.value * expr.right.value)
    /\ expr.tag = "Abs" => ReturnsConst(Magnitude(expr.operand.value))
    /\ expr.tag = "Neg" => ReturnsConst(0 - expr.operand.value)

C1_Witness ==
  /\ pc = "after_eval"
  /\ expr = Minus(IntConst(-3), IntConst(5))
  /\ result.value = IntConst(-8)

\* the largest integer q with q * b <= a (b > 0), or with q * b >= a (b < 0)
IsFloorQuotient(q, a, b) ==
  IF b > 0 THEN q * b <= a /\ a < (q + 1) * b
           ELSE q * b >= a /\ a > (q + 1) * b

\* the quotient of the magnitudes, with the sign of a / b
Truncated(a, b) ==
  LET m == Magnitude(a) \div Magnitude(b)
  IN IF (a < 0) = (b < 0) THEN m ELSE 0 - m

\* C2: Div over two integer literals a and b, b # 0, evaluates to
\* IntConst(floor(a/b)): for operands of opposite sign with a non-zero
\* remainder that is one less than the truncated quotient (-7 / 2 and
\* 7 / -2 give -4).
C2_FloorDivision ==
  (pc = "after_eval" /\ expr.tag = "Div" /\ ConstOperands(expr) /\ expr.right.value # 0) =>
    LET a == expr.left.value
        b == expr.right.value
    IN /\ result.status = "ok"
       /\ result.value.tag = "IntConst"
       /\ IsFloorQuotient(result.value.value, a, b)
       /\ ((a < 0) # (b < 0) /\ Truncated(a, b) * b # a)
            => result.value.value = Truncated(a, b) - 1
       /\ (a = -7 /\ b = 2) => result.value = IntConst(-4)
       /\ (a = 7 /\ b = -2) => result.value = IntConst(-4)

C2_Witness ==
  /\ pc = "after_eval"
  /\ expr = Div(IntConst(-7), IntConst(2))
  /\ result.value = IntConst(-4)

\* the last call eval finished before the root's own was the right
\* operand's, and it returned IntConst(0)
RightOperandIsZero ==
  /\ Len(trace) >= 2
  /\ LET e == trace[Len(trace) - 1]
     IN e.ev = "return" /\ e.node = expr.right /\ e.value = IntConst(0)

\* C3: eval of a Div node whose right operand evaluates to 0 raises
\* ZeroDivisionError and returns no IntConst.
C3_DivisionByZero ==
  (EvalDone /\ expr.tag = "Div" /\ RightOperandIsZero) =>
    /\ result.status = "ZeroDivisionError"
    /\ result.value = None

C3_Witness ==
  /\ pc = "after_eval"
  /\ expr = Div(IntConst(1), Minus(Var("x"), IntConst(1)))
  /\ result.status = "ZeroDivisionError"

\* C4: Var(n).eval() with n unbound raises UndefinedVariable, returns no
\* value and leaves ENV as it was; with n bound it returns exactly the
\* stored value.
C4_VarLookup ==
  (EvalDone /\ expr.tag = "Var") =>
    IF expr.name \in DOMAIN envBefore
      THEN result.status = "ok" /\ result.value = envBefore[expr.name]
      ELSE /\ result.status = "UndefinedVariable"
           /\ result.value = None
           /\ ENV = envBefore

C4_Witness ==
  /\ pc = "after_eval"
  /\ expr = Var("x")
  /\ "x" \notin DOMAIN envBefore
  /\ "y" \in DOMAIN envBefore
  /\ result.status = "UndefinedVariable"

\* C5: Assign(Var(n), e).eval(), when e evaluates to v, returns v and binds
\* n to v whatever n was bound to; the binding of every name is the value
\* of the most recent assignment to it, and that is what Var(n).eval()
\* returns.
C5_AssignStores ==
  /\ ENV = lastAssigned
  /\ (EvalDone /\ expr.tag = "Assign") =>
       LET rhs == trace[Len(trace) - 1]
       IN /\ rhs.node = expr.right
          /\ rhs.ev = "return" =>
               /\ result.status = "ok"
               /\ result.value = rhs.value
               /\ expr.left.name \in DOMAIN ENV
               /\ ENV[expr.left.name] = rhs.value
  /\ (EvalDone /\ expr.tag = "Var" /\ expr.name \in DOMAIN lastAssigned) =>
       /\ result.status = "ok"
       /\ result.value = lastAssigned[expr.name]

C5_Witness ==
  /\ pc = "after_eval"
  /\ expr = Assign(Var("x"), Neg(IntConst(1)))
  /\ "x" \in DOMAIN envBefore
  /\ envBefore["x"] = IntConst(0)
  /\ ENV["x"] = IntConst(-1)
  /\ result.value = IntConst(-1)

\* some Assign in the term has a left operand that is not a Var
RECURSIVE HasBadAssign(_)
HasBadAssign(t) ==
  CASE t.tag \in {"IntConst", "Var"} -> FALSE
    [] t.tag \in BinOpTags -> HasBadAssign(t.left) \/ HasBadAssign(t.right)
    [] t.tag \in UnOpTags -> HasBadAssign(t.operand)
    [] t.tag = "Assign" ->
         t.left.tag # "Var" \/ HasBadAssign(t.left) \/ HasBadAssign(t.right)

\* C6: constructing an Assign whose left operand is not a Var fails at
\* construction, so no tree holds such a node, eval never visits one and
\* the failed construction leaves ENV as it was.
C6_AssignTarget ==
  /\ (pc # "idle" /\ HasBadAssign(term)) =>
       /\ pc = "after_init"
       /\ result.status = "AssertionError"
       /\ expr = None
       /\ ENV = envBefore
  /\ expr # None => ~HasBadAssign(expr)
  /\ \A i \in 1..Len(trace) : ~HasBadAssign(trace[i].node)

C6_Witness ==
  /\ pc = "after_init"
  /\ term = Plus(Assign(IntConst(1), Var("x")), IntConst(0))
  /\ result.status = "AssertionError"

\* the operands a node's eval evaluates
Operands(e) ==
  CASE e.tag \in BinOpTags -> {e.left, e.right}
    [] e.tag \in UnOpTags -> {e.operand}
    [] e.tag = "Assign" -> {e.right}
    [] OTHER -> {}

Raised == {i \in 1..Len(trace) : trace[i].ev = "raise"}

FirstRaise == CHOOSE i \in Raised : \A j \in Raised : i <= j

\* C7: once the eval of a node raises, the eval of each enclosing node up
\* to the root raises the same error and nothing else is evaluated: no
\* node catches it, substitutes a value or goes on to another operand.
C7_FailurePropagates ==
  (EvalDone /\ Raised # {}) =>
    /\ \A j \in FirstRaise..Len(trace) :
         /\ trace[j].ev = "raise"
         /\ trace[j].status = trace[FirstRaise].status
    /\ \A j \in (FirstRaise + 1)..Len(trace) : trace[j - 1].node \in Operands(trace[j].node)
    /\ trace[Len(trace)].node = expr
    /\ result.status = trace[FirstRaise].status
    /\ result.status \in {"UndefinedVariable", "ZeroDivisionError"}
    /\ result.value = None

C7_Witness ==
  /\ pc = "after_eval"
  /\ expr = Plus(Neg(Var("y")), IntConst(1))
  /\ result.status = "UndefinedVariable"
  /\ Len(trace) = 3

RECURSIVE AssignFree(_)
AssignFree(e) ==
  CASE e.tag \in {"IntConst", "Var"} -> TRUE
    [] e.tag \in BinOpTags -> AssignFree(e.left) /\ AssignFree(e.right)
    [] e.tag \in UnOpTags -> AssignFree(e.operand)
    [] e.tag = "Assign" -> FALSE

\* C8: eval of a tree without an Assign node, failing or not, and __str__
\* and __repr__ of any tree leave ENV as it was; a second eval of a tree
\* without an Assign node gives the result of the first.
C8_EnvFrame ==
  /\ (EvalDone /\ AssignFree(expr)) => ENV = envBefore
  /\ pc \in {"after_str", "after_repr"} => ENV = envBefore
  /\ (pc = "after_eval2" /\ AssignFree(expr)) => result = prevResult

C8_Witness ==
  /\ pc = "after_eval2"
  /\ expr = Minus(Var("x"), Abs(Var("y")))
  /\ DOMAIN ENV = {"x"}
  /\ result = prevResult
  /\ result.status = "UndefinedVariable"

\* the nodes the eval of e evaluates
RECURSIVE Subtrees(_)
Subtrees(e) ==
  CASE e.tag \in BinOpTags -> {e} \cup Subtrees(e.left) \cup Subtrees(e.right)
    [] e.tag \in UnOpTags -> {e} \cup Subtrees(e.operand)
    [] e.tag = "Assign" -> {e} \cup Subtrees(e.right)
    [] OTHER -> {e}

\* the left operand's eval finishes at position k of the trace: before it
\* only nodes inside the left operand, after it (if it returned) only nodes
\* of the right operand, then the root; if it raised, only the root
LeftFinishesAt(k) ==
  /\ trace[k].node = expr.left
  /\ \A j \in 1..(k - 1) : trace[j].node \in Subtrees(expr.left) \ {expr.left}
  /\ trace[k].ev = "raise" => Len(trace) = k + 1
  /\ trace[k].ev = "return" =>
       \A j \in (k + 1)..(Len(trace) - 1) : trace[j].node \in Subtrees(expr.right)

\* C9: a BinOp evaluates its left operand completely before its right one
\* and an Assign its right-hand side completely before writing its target:
\* with x unbound Plus(Assign(Var(x), IntConst(1)), Var(x)) gives
\* IntConst(2), Plus(Var(x), Assign(Var(x), IntConst(1))) raises
\* UndefinedVariable and leaves x unbound.
C9_EvaluationOrder ==
  EvalDone =>
    /\ expr.tag \in BinOpTags => \E k \in 1..Len(trace) : LeftFinishesAt(k)
    /\ (expr.tag = "Assign" /\ expr.right = expr.left) =>
         IF expr.left.name \in DOMAIN envBefore
           THEN result.status = "ok" /\ result.value = envBefore[expr.left.name]
           ELSE result.status = "UndefinedVariable" /\ ENV = envBefore
    /\ (expr = Plus(Assign(Var("x"), IntConst(1)), Var("x")) /\ "x" \notin DOMAIN envBefore) =>
         result.status = "ok" /\ result.value = IntConst(2)
    /\ (expr = Plus(Var("x"), Assign(Var("x"), IntConst(1))) /\ "x" \notin DOMAIN envBefore) =>
         result.status = "UndefinedVariable" /\ "x" \notin DOMAIN ENV

C9_Witness ==
  /\ pc = "after_eval"
  /\ expr = Plus(Assign(Var("x"), IntConst(1)), Var("x"))
  /\ "x" \notin DOMAIN envBefore
  /\ result.value = IntConst(2)

\* C10: a failed eval is not rolled back: it leaves ENV as it was at the
\* call, updated by the Assign nodes whose eval completed before the
\* failure, in that order; an Assign whose right-hand side fails writes
\* nothing itself.  With y unbound Plus(Assign(Var(x), IntConst(1)), Var(y))
\* fails and leaves x bound to 1.
C10_NoRollback ==
  (EvalDone /\ result.status # "ok") =>
    /\ ENV = ApplyWrites(envBefore, trace)
    /\ (expr.tag = "Assign" /\ AssignFree(expr.right)) => ENV = envBefore
    /\ (expr = Plus(Assign(Var("x"), IntConst(1)), Var("y")) /\ "y" \notin DOMAIN envBefore) =>
         "x" \in DOMAIN ENV /\ ENV["x"] = IntConst(1)

C10_Witness ==
  /\ pc = "after_eval"
  /\ expr = Plus(Assign(Var("x"), IntConst(1)), Var("y"))
  /\ result.status = "UndefinedVariable"
  /\ DOMAIN envBefore = {}
  /\ DOMAIN ENV = {"x"}
  /\ ENV["x"] = IntConst(1)

====
